---- MODULE Spec2Model ----
(***************************************************************************)
(* Model of the IoT health-monitoring backend (FastAPI + SQLAlchemy):      *)
(*   ml/predictor.py        HealthPredictor (model path, rule fallback,    *)
(*                          recommendations)                               *)
(*   routes/predictions.py  POST /api/predictions/predict                  *)
(*   routes/sensor_data.py  POST /api/sensor-data/ (ingestion, retention   *)
(*                          cleanup, deferred alert and log writes)        *)
(*   database.py            the three tables and their helpers             *)
(*                                                                         *)
(* Units.  Heart rate, SpO2, humidity and air quality are whole numbers;   *)
(* temperature is in tenths of a degree (37.8 C is 378).  Class            *)
(* probabilities are in percent.  Risk scores and confidences are in       *)
(* units of 1/200, so that 0.5 * p_mod + 1.0 * p_high is the integer       *)
(* p_mod + 2 * p_high and 0.8, 0.75, 0.66, 0.5, 0.33, 0.2 are 160, 150,    *)
(* 132, 100, 66, 40.  Clock values are seconds.                            *)
(***************************************************************************)
EXTENDS Integers, Sequences, FiniteSets, TLC

VARIABLES
    now,        \* datetime.utcnow(), in seconds
    readings,   \* table sensor_readings
    alerts,     \* table alerts
    logs,       \* table system_logs
    tasks,      \* BackgroundTasks of the requests already answered
    responses,  \* the answers of POST /api/sensor-data/, in request order
    call,       \* the latest request to an endpoint that writes nothing
                \* (predict, history, stats) and its answer
    active_connections, \* manager.active_connections, a list
    websockets, \* per WebSocket: where its websocket_endpoint stands, the
                \* texts it received and the replies it sent
    broadcast   \* the manager.broadcast coroutine of POST /broadcast

vars == <<now, readings, alerts, logs, tasks, responses, call,
          active_connections, websockets, broadcast>>

wsvars == <<active_connections, websockets, broadcast>>

sysvars == <<now, readings, alerts, logs, tasks, responses>>

-----------------------------------------------------------------------------
(* Bounds of the model *)

MaxTime == 86401

MaxRequests == 2

HandlerDelays == {0, 1}

TickSteps == {43200}

Devices == {"ESP32_001", "ESP32_002"}

-----------------------------------------------------------------------------
(* models.py: RiskLevel and SensorDataInput *)

RiskLevel == {"Low", "Moderate", "High"}

HeartRates == {59, 60, 64, 65, 90, 91, 100, 101}

Spo2s == {94, 95, 96, 97, 100}

Temperatures == {359, 360, 361, 362, 375, 376, 378, 379}

Humidities == {29, 30, 70, 71}

AirQualities == {49, 50, 69, 70}

SensorDataInput ==
    [heart_rate : HeartRates, spo2 : Spo2s, temperature : Temperatures,
     humidity : Humidities, air_quality : AirQualities]

-----------------------------------------------------------------------------
(* What the pickled scaler and classifier do on one call: every step of    *)
(* the model path either raises or returns; predict_proba returns three    *)
(* class probabilities that sum to 1 and predict a class index.            *)

ProbGrid == {0, 1, 2, 32, 33, 34, 35, 64, 65, 66, 67, 98, 99, 100}

Probas == {p \in ProbGrid \X ProbGrid \X ProbGrid : p[1] + p[2] + p[3] = 100}

Steps == {"scale", "predict_proba", "predict"}

ModelOutcome ==
    [raises : Steps \cup {"none"}, proba : Probas, prediction : 0..2]

Max3(p) ==
    IF p[1] >= p[2] /\ p[1] >= p[3] THEN p[1]
    ELSE IF p[2] >= p[3] THEN p[2] ELSE p[3]

-----------------------------------------------------------------------------
(* ml/predictor.py *)

\* Python's None
None == "None"

LowThreshold == 66

ModerateThreshold == 132

\* Mutant: the humidity check made before the air quality check
GenerateRecommendations_HumidityFirst(v, risk_level) ==
    (IF v.heart_rate > 100 THEN <<"Elevated heart rate detected">>
     ELSE IF v.heart_rate < 60 THEN <<"Low heart rate detected">>
     ELSE <<>>)
    \o (IF v.spo2 < 95 THEN <<"Low oxygen saturation">>
        ELSE IF v.spo2 < 97 THEN <<"Oxygen levels slightly low">>
        ELSE <<>>)
    \o (IF v.temperature > 378 THEN <<"Fever detected">>
        ELSE IF v.temperature < 360 THEN <<"Low body temperature">>
        ELSE <<>>)
    \o (IF v.humidity > 70 THEN <<"High humidity">>
        ELSE IF v.humidity < 30 THEN <<"Low humidity">>
        ELSE <<>>)
    \o (IF v.air_quality < 70 THEN <<"Poor air quality">> ELSE <<>>)
    \o (IF risk_level = "High"
          THEN <<"HIGH RISK: Contact healthcare provider immediately">>
        ELSE IF risk_level = "Moderate"
          THEN <<"MODERATE RISK: Monitor vitals every 15 minutes">>
        ELSE <<"All vitals within normal range">>)

\* Mutant: no closing message for Low, and no default for an empty list
GenerateRecommendations_NoLowClosing(v, risk_level) ==
    (IF v.heart_rate > 100 THEN <<"Elevated heart rate detected">>
     ELSE IF v.heart_rate < 60 THEN <<"Low heart rate detected">>
     ELSE <<>>)
    \o (IF v.spo2 < 95 THEN <<"Low oxygen saturation">>
        ELSE IF v.spo2 < 97 THEN <<"Oxygen levels slightly low">>
        ELSE <<>>)
    \o (IF v.temperature > 378 THEN <<"Fever detected">>
        ELSE IF v.temperature < 360 THEN <<"Low body temperature">>
        ELSE <<>>)
    \o (IF v.air_quality < 70 THEN <<"Poor air quality">> ELSE <<>>)
    \o (IF v.humidity > 70 THEN <<"High humidity">>
        ELSE IF v.humidity < 30 THEN <<"Low humidity">>
        ELSE <<>>)
    \o (IF risk_level = "High"
          THEN <<"HIGH RISK: Contact healthcare provider immediately">>
        ELSE IF risk_level = "Moderate"
          THEN <<"MODERATE RISK: Monitor vitals every 15 minutes">>
        ELSE <<>>)

GenerateRecommendations(v, risk_level) ==
    LET hr  == IF v.heart_rate > 100
                 THEN <<"Elevated heart rate detected">>
               ELSE IF v.heart_rate < 60
                 THEN <<"Low heart rate detected">>
               ELSE <<>>
        ox  == IF v.spo2 < 95
                 THEN <<"Low oxygen saturation">>
               ELSE IF v.spo2 < 97
                 THEN <<"Oxygen levels slightly low">>
               ELSE <<>>
        tmp == IF v.temperature > 378
                 THEN <<"Fever detected">>
               ELSE IF v.temperature < 360
                 THEN <<"Low body temperature">>
               ELSE <<>>
        aq  == IF v.air_quality < 70
                 THEN <<"Poor air quality">>
               ELSE <<>>
        hum == IF v.humidity > 70
                 THEN <<"High humidity">>
               ELSE IF v.humidity < 30
                 THEN <<"Low humidity">>
               ELSE <<>>
        gen == IF risk_level = "High"
                 THEN <<"HIGH RISK: Contact healthcare provider immediately">>
               ELSE IF risk_level = "Moderate"
                 THEN <<"MODERATE RISK: Monitor vitals every 15 minutes">>
               ELSE <<"All vitals within normal range">>
        recommendations == hr \o ox \o tmp \o aq \o hum \o gen
    IN  IF recommendations # <<>> THEN recommendations
        ELSE <<"All vitals normal">>

\* lines 103-128: the tallies of the four checked vitals
RuleCounts(v) ==
    LET hrC == IF v.heart_rate > 100 \/ v.heart_rate < 60 THEN 1 ELSE 0
        hrW == IF hrC = 0 /\ (v.heart_rate > 90 \/ v.heart_rate < 65)
               THEN 1 ELSE 0
        oxC == IF v.spo2 < 95 THEN 1 ELSE 0
        oxW == IF oxC = 0 /\ v.spo2 < 97 THEN 1 ELSE 0
        tmC == IF v.temperature > 378 \/ v.temperature < 360 THEN 1 ELSE 0
        tmW == IF tmC = 0 /\ (v.temperature > 375 \/ v.temperature < 362)
               THEN 1 ELSE 0
        aqC == IF v.air_quality < 50 THEN 1 ELSE 0
        aqW == IF aqC = 0 /\ v.air_quality < 70 THEN 1 ELSE 0
    IN  [critical_count |-> hrC + oxC + tmC + aqC,
         warning_count |-> hrW + oxW + tmW + aqW]

\* Mutant: one warning is enough for Moderate
RuleRisk_AnyWarning(critical_count, warning_count) ==
    IF critical_count >= 2 THEN [risk_level |-> "High", risk_score |-> 160]
    ELSE IF critical_count >= 1 \/ warning_count >= 1
      THEN [risk_level |-> "Moderate", risk_score |-> 100]
    ELSE [risk_level |-> "Low", risk_score |-> 40]

\* Mutant: one critical signal is enough for High
RuleRisk_OneCritical(critical_count, warning_count) ==
    IF critical_count >= 1 THEN [risk_level |-> "High", risk_score |-> 160]
    ELSE IF warning_count >= 2
      THEN [risk_level |-> "Moderate", risk_score |-> 100]
    ELSE [risk_level |-> "Low", risk_score |-> 40]

\* lines 130-139: the level and score from the tallies
RuleRisk(critical_count, warning_count) ==
    IF critical_count >= 2 THEN [risk_level |-> "High", risk_score |-> 160]
    ELSE IF critical_count >= 1 \/ warning_count >= 2
      THEN [risk_level |-> "Moderate", risk_score |-> 100]
    ELSE [risk_level |-> "Low", risk_score |-> 40]

RuleBasedPrediction(v) ==
    LET n == RuleCounts(v)
        risk == RuleRisk(n.critical_count, n.warning_count)
    IN  [raised |-> FALSE,
         risk_level |-> risk.risk_level,
         risk_score |-> risk.risk_score,
         confidence |-> 150,
         recommendations |-> GenerateRecommendations(v, risk.risk_level)]

\* Mutant: the middle level spelled differently
ModelPrediction_Medium(v, m) ==
    LET risk_score == m.proba[2] + 2 * m.proba[3]
        risk_level == IF m.prediction = 2 \/ risk_score >= ModerateThreshold
                        THEN "High"
                      ELSE IF m.prediction = 1 \/ risk_score >= LowThreshold
                        THEN "Medium"
                      ELSE "Low"
    IN  [raised |-> FALSE,
         risk_level |-> risk_level,
         risk_score |-> risk_score,
         confidence |-> 2 * Max3(m.proba),
         recommendations |-> GenerateRecommendations(v, risk_level)]

\* Mutant: the score thresholds compared with > instead of >=
ModelPrediction_Strict(v, m) ==
    LET risk_score == m.proba[2] + 2 * m.proba[3]
        risk_level == IF m.prediction = 2 \/ risk_score > ModerateThreshold
                        THEN "High"
                      ELSE IF m.prediction = 1 \/ risk_score > LowThreshold
                        THEN "Moderate"
                      ELSE "Low"
    IN  [raised |-> FALSE,
         risk_level |-> risk_level,
         risk_score |-> risk_score,
         confidence |-> 2 * Max3(m.proba),
         recommendations |-> GenerateRecommendations(v, risk_level)]

ModelPrediction(v, m) ==
    LET proba == m.proba
        prediction == m.prediction
        risk_score == proba[1] * 0 + proba[2] * 1 + proba[3] * 2
        risk_level == IF prediction = 2 \/ risk_score >= ModerateThreshold
                        THEN "High"
                      ELSE IF prediction = 1 \/ risk_score >= LowThreshold
                        THEN "Moderate"
                      ELSE "Low"
    IN  [raised |-> FALSE,
         risk_level |-> risk_level,
         risk_score |-> risk_score,
         confidence |-> 2 * Max3(proba),
         recommendations |-> GenerateRecommendations(v, risk_level)]

\* Mutant: only the failures of the first two steps are caught
Predict_CatchesFewer(v, m) ==
    IF m.raises \in {"scale", "predict_proba"} THEN RuleBasedPrediction(v)
    ELSE IF m.raises = "predict"
      THEN [raised |-> TRUE, risk_level |-> "", risk_score |-> 0,
            confidence |-> 0, recommendations |-> <<>>]
    ELSE ModelPrediction(v, m)

Predict(v, m) ==
    IF m.raises \in Steps THEN RuleBasedPrediction(v)
    ELSE ModelPrediction(v, m)

-----------------------------------------------------------------------------
(* routes/predictions.py: POST /api/predictions/predict *)

NoResponse == [status |-> 0]

Idle == [state |-> "idle"]

\* PredictionResponse(...): the pydantic validation of the response fields
PredictionResponseValid(r) ==
    /\ r.risk_level \in RiskLevel
    /\ r.confidence >= 0 /\ r.confidence <= 200
    /\ r.risk_score >= 0 /\ r.risk_score <= 200

PredictHealthRiskResponse(data, m) ==
    LET r == Predict(data, m)
    IN  IF r.raised \/ ~PredictionResponseValid(r)
        THEN [status |-> 500]
        ELSE [status |-> 200,
              risk_level |-> r.risk_level,
              confidence |-> r.confidence,
              risk_score |-> r.risk_score,
              recommendations |-> r.recommendations]

PredictHealthRisk ==
    /\ call.state = "pending"
    /\ call.op = "predict"
    /\ call' = [call EXCEPT !.state = "done",
                            !.response =
                                PredictHealthRiskResponse(call.data, call.outcome)]
    /\ UNCHANGED <<sysvars, wsvars>>

\* predictor._rule_based_prediction(sensor_data), called on its own
RuleBasedCall ==
    /\ call.state = "pending"
    /\ call.op = "rule_based"
    /\ call' = [call EXCEPT !.state = "done",
                            !.response = RuleBasedPrediction(call.data)]
    /\ UNCHANGED <<sysvars, wsvars>>

-----------------------------------------------------------------------------
(* The requests the prediction endpoint is checked on: every vitals vector *)
(* of the grid with the model path raising at each step and with one       *)
(* model answer per level, and every model answer on a few vitals.         *)

NoOutcome == [raises |-> "none", proba |-> <<100, 0, 0>>, prediction |-> 0]

FailOutcomes ==
    {[raises |-> s, proba |-> <<100, 0, 0>>, prediction |-> 0] : s \in Steps}

OkOutcomes ==
    {[raises |-> "none", proba |-> p, prediction |-> c] :
        p \in Probas, c \in 0..2}

FewOkOutcomes ==
    {[raises |-> "none", proba |-> <<98, 1, 1>>, prediction |-> 0],
     [raises |-> "none", proba |-> <<33, 65, 2>>, prediction |-> 1],
     [raises |-> "none", proba |-> <<1, 1, 98>>, prediction |-> 2]}

FewVitals ==
    {[heart_rate |-> 65, spo2 |-> 97, temperature |-> 362,
      humidity |-> 30, air_quality |-> 70],
     [heart_rate |-> 101, spo2 |-> 96, temperature |-> 375,
      humidity |-> 71, air_quality |-> 69],
     [heart_rate |-> 59, spo2 |-> 94, temperature |-> 379,
      humidity |-> 29, air_quality |-> 49]}

PredictInputs ==
    (SensorDataInput \X (FailOutcomes \cup FewOkOutcomes))
        \cup (FewVitals \X OkOutcomes)

-----------------------------------------------------------------------------
(* database.py *)

\* SensorReading.id: INTEGER PRIMARY KEY of the default SQLite database,
\* one more than the largest id in the table
NextReadingId(rs) ==
    IF rs = {} THEN 1
    ELSE (CHOOSE i \in {r.id : r \in rs} : \A r \in rs : r.id <= i) + 1

CreateSensorReading(rs, data) ==
    [id |-> NextReadingId(rs),
     device_id |-> data.device_id,
     heart_rate |-> data.heart_rate,
     spo2 |-> data.spo2,
     temperature |-> data.temperature,
     humidity |-> data.humidity,
     air_quality |-> data.air_quality,
     risk_level |-> data.risk_level,
     risk_score |-> data.risk_score,
     is_critical |-> data.is_critical,
     timestamp |-> data.timestamp]

\* Alert(...): is_resolved and resolved_at take their column defaults;
\* created_at, the insertion time, which only orders the alert list, is left
\* out.  req is history, not a column: the request that enqueued the write.
CreateAlert(as, t) ==
    [id |-> Cardinality(as) + 1,
     device_id |-> t.device_id,
     alert_type |-> t.alert_type,
     message |-> t.message,
     vital_name |-> t.vital_name,
     vital_value |-> t.vital_value,
     is_resolved |-> FALSE,
     resolved_at |-> None,
     req |-> t.req]

\* SystemLog(...): the id and timestamp columns, which nothing reads, are
\* left out.  req is history, not a column: the request that wrote the row.
LogSystemEvent(t) ==
    [event_type |-> t.event_type,
     message |-> t.message,
     device_id |-> t.device_id,
     req |-> t.req]

-----------------------------------------------------------------------------
(* routes/sensor_data.py: POST /api/sensor-data/ *)

Retention == 24

\* Mutant: the retention window taken as 24 days
CleanupCutoff_Days(t) == t - Retention * 24 * 3600

\* timedelta(hours=24)
CleanupCutoff(t) == t - Retention * 3600

\* Mutant: the filter's comparison inverted
OldReadings_Inverted(rs, cleanup_cutoff) ==
    {r \in rs : r.timestamp > cleanup_cutoff}

OldReadings(rs, cleanup_cutoff) ==
    {r \in rs : r.timestamp < cleanup_cutoff}

\* Mutant: the delete cascades to the alerts of the devices it touches
DeleteOld_Cascade(rs, as, cleanup_cutoff) ==
    [readings |-> rs \ OldReadings(rs, cleanup_cutoff),
     alerts |-> {a \in as : \A r \in OldReadings(rs, cleanup_cutoff) :
                                a.device_id # r.device_id}]

\* db.query(SensorReading).filter(...).delete(), committed when it deleted
\* rows: a bulk delete on sensor_readings alone
DeleteOld(rs, as, cleanup_cutoff) ==
    [readings |-> rs \ OldReadings(rs, cleanup_cutoff),
     alerts |-> as]

\* Mutant: every level above Low taken as critical
IsCritical_NotLow(risk_level) == risk_level # "Low"

IsCritical(risk_level) == risk_level = "High"

\* Mutant: vital_value rounded to a whole number
AlertTask_Rounded(req, device_id, risk_score) ==
    [fn |-> "create_alert",
     req |-> req,
     device_id |-> device_id,
     alert_type |-> "CRITICAL",
     message |-> "High risk detected!",
     vital_name |-> "risk_level",
     vital_value |-> ((risk_score + 100) \div 200) * 200]

AlertTask(req, device_id, risk_score) ==
    [fn |-> "create_alert",
     req |-> req,
     device_id |-> device_id,
     alert_type |-> "CRITICAL",
     message |-> "High risk detected!",
     vital_name |-> "risk_level",
     vital_value |-> risk_score]

LogTask(req, device_id, risk_level) ==
    [fn |-> "log_system_event",
     req |-> req,
     event_type |-> "DATA_RECEIVED",
     message |-> <<"Sensor data received - Risk:", risk_level>>,
     device_id |-> device_id]

BackgroundTasks(req, device_id, is_critical, risk_level, risk_score) ==
    (IF is_critical THEN <<AlertTask(req, device_id, risk_score)>> ELSE <<>>)
        \o <<LogTask(req, device_id, risk_level)>>

\* The vitals and model answers the ingestion endpoint is exercised with:
\* Low and High through the rule-based fallback, Moderate and High through
\* the model path.
ModelFails == [raises |-> "predict", proba |-> <<100, 0, 0>>, prediction |-> 0]

NormalVitals == CHOOSE v \in FewVitals : v.heart_rate = 65

CriticalVitals == CHOOSE v \in FewVitals : v.heart_rate = 59

SysInputs ==
    {<<NormalVitals, ModelFails>>,
     <<CriticalVitals, ModelFails>>,
     <<NormalVitals, [raises |-> "none", proba |-> <<33, 65, 2>>, prediction |-> 1]>>,
     <<CriticalVitals, [raises |-> "none", proba |-> <<1, 1, 98>>, prediction |-> 2]>>}

\* datetime.utcnow() is read twice, for the timestamp (line 59) and for the
\* cleanup cutoff (line 65); the clock moves on by d between the two.
ReceiveSensorData(device_id, data, m, d) ==
    LET req == Len(responses) + 1
        p == Predict(data, m)
        is_critical == IsCritical(p.risk_level)
        reading == CreateSensorReading(readings,
                       [device_id |-> device_id,
                        heart_rate |-> data.heart_rate,
                        spo2 |-> data.spo2,
                        temperature |-> data.temperature,
                        humidity |-> data.humidity,
                        air_quality |-> data.air_quality,
                        risk_level |-> p.risk_level,
                        risk_score |-> p.risk_score,
                        is_critical |-> is_critical,
                        timestamp |-> now])
        stored == readings \cup {reading}
        cleanup_time == now + d
        db == DeleteOld(stored, alerts, CleanupCutoff(cleanup_time))
    IN  /\ Len(responses) < MaxRequests
        /\ now + d <= MaxTime
        /\ IF p.raised     \* lines 108-115: the except clause
           THEN /\ logs' = logs \cup
                     {LogSystemEvent(
                         [event_type |-> "ERROR",
                          message |-> <<"Error processing sensor data">>,
                          device_id |-> device_id,
                          req |-> req])}
                /\ responses' = Append(responses, [status |-> 500])
                /\ UNCHANGED <<now, readings, alerts, tasks>>
           ELSE /\ now' = cleanup_time
                /\ readings' = db.readings
                /\ alerts' = db.alerts
                /\ tasks' = tasks \cup
                     {[req |-> req,
                       todo |-> BackgroundTasks(req, device_id, is_critical,
                                                p.risk_level, p.risk_score)]}
                /\ responses' = Append(responses,
                       [status |-> 200,
                        id |-> reading.id,
                        heart_rate |-> reading.heart_rate,
                        spo2 |-> reading.spo2,
                        temperature |-> reading.temperature,
                        humidity |-> reading.humidity,
                        air_quality |-> reading.air_quality,
                        risk_level |-> reading.risk_level,
                        risk_score |-> reading.risk_score,
                        device_id |-> reading.device_id,
                        timestamp |-> reading.timestamp,
                        is_critical |-> reading.is_critical])
                /\ UNCHANGED logs
        /\ UNCHANGED <<call, wsvars>>

Ingest ==
    \E device_id \in Devices, i \in SysInputs, d \in HandlerDelays :
        ReceiveSensorData(device_id, i[1], i[2], d)

\* starlette runs the BackgroundTasks of a request one after the other once
\* its response is sent; other requests are served meanwhile
RunTask ==
    \E q \in tasks :
        LET t == Head(q.todo)
            rest == IF Len(q.todo) = 1 THEN tasks \ {q}
                    ELSE (tasks \ {q}) \cup {[q EXCEPT !.todo = Tail(q.todo)]}
        IN  /\ tasks' = rest
            /\ IF t.fn = "create_alert"
               THEN /\ alerts' = alerts \cup {CreateAlert(alerts, t)}
                    /\ UNCHANGED logs
               ELSE /\ logs' = logs \cup {LogSystemEvent(t)}
                    /\ UNCHANGED alerts
            /\ UNCHANGED <<now, readings, responses, call, wsvars>>

Tick ==
    \E d \in TickSteps :
        /\ now + d <= MaxTime
        /\ now' = now + d
        /\ UNCHANGED <<readings, alerts, logs, tasks, responses, call, wsvars>>

-----------------------------------------------------------------------------
(* routes/sensor_data.py: GET /api/sensor-data/history and /stats *)

OnlineWindow == 60

HistoryHours == {12, 24}

ShortSteps == {59}

HistoryRows_Strict(rs, device_id, cutoff_time) ==
    {r \in rs : r.device_id = device_id /\ r.timestamp > cutoff_time}

\* filter(device_id == ..., timestamp >= cutoff_time)
HistoryRows(rs, device_id, cutoff_time) ==
    {r \in rs : r.device_id = device_id /\ r.timestamp >= cutoff_time}

\* order_by(timestamp.asc()).all(): the rows in ascending timestamp order;
\* the database is free in the order of rows with equal timestamps
AscendingOrders(rows) ==
    {q \in [1..Cardinality(rows) -> rows] :
        /\ \A i, j \in 1..Cardinality(rows) : i # j => q[i] # q[j]
        /\ \A i, j \in 1..Cardinality(rows) :
              i < j => q[i].timestamp <= q[j].timestamp}

\* strftime("%H:%M:%S"): the time of day, without the date
Strftime(t) == t % 86400

HistoricalData(q) ==
    [timestamps |-> [i \in 1..Len(q) |-> Strftime(q[i].timestamp)],
     heart_rate |-> [i \in 1..Len(q) |-> q[i].heart_rate],
     spo2 |-> [i \in 1..Len(q) |-> q[i].spo2],
     temperature |-> [i \in 1..Len(q) |-> q[i].temperature],
     risk_scores |-> [i \in 1..Len(q) |-> q[i].risk_score]]

GetHistoricalData ==
    \E device_id \in Devices, hours \in HistoryHours :
        LET cutoff_time == now - hours * 3600
            rows == HistoryRows(readings, device_id, cutoff_time)
        IN  /\ \E q \in AscendingOrders(rows) :
                 call' = [state |-> "done", op |-> "history",
                          device_id |-> device_id, hours |-> hours,
                          response |->
                             IF q = <<>>
                             THEN [timestamps |-> <<>>, heart_rate |-> <<>>,
                                   spo2 |-> <<>>, temperature |-> <<>>,
                                   risk_scores |-> <<>>]
                             ELSE HistoricalData(q)]
            /\ UNCHANGED <<sysvars, wsvars>>

CountLevel(rs, risk_level) ==
    Cardinality({r \in rs : r.risk_level = risk_level})

MinTimestamp(rs) ==
    CHOOSE t \in {r.timestamp : r \in rs} : \A r \in rs : t <= r.timestamp

MaxTimestamp(rs) ==
    CHOOSE t \in {r.timestamp : r \in rs} : \A r \in rs : t >= r.timestamp

DeviceStatus_Inclusive(time_since_last) ==
    IF time_since_last <= OnlineWindow THEN "Online" ELSE "Offline"

DeviceStatus(time_since_last) ==
    IF time_since_last < OnlineWindow THEN "Online" ELSE "Offline"

\* round(seconds / 3600, 2), in hundredths of an hour
UptimeHours(seconds) == (seconds * 100 + 1800) \div 3600

SystemStats(rs, device_id, t) ==
    LET all_readings == {r \in rs : r.device_id = device_id}
    IN  IF all_readings = {}
        THEN [total_readings |-> 0,
              high_risk_count |-> 0,
              moderate_risk_count |-> 0,
              low_risk_count |-> 0,
              last_updated |-> t,
              device_status |-> "No Data",
              uptime_hours |-> 0]
        ELSE [total_readings |-> Cardinality(all_readings),
              high_risk_count |-> CountLevel(all_readings, "High"),
              moderate_risk_count |-> CountLevel(all_readings, "Moderate"),
              low_risk_count |-> CountLevel(all_readings, "Low"),
              last_updated |-> MaxTimestamp(all_readings),
              device_status |->
                  DeviceStatus(t - MaxTimestamp(all_readings)),
              uptime_hours |-> UptimeHours(t - MinTimestamp(all_readings))]

GetSystemStats ==
    \E device_id \in Devices :
        /\ call' = [state |-> "done", op |-> "stats",
                    device_id |-> device_id,
                    response |-> SystemStats(readings, device_id, now)]
        /\ UNCHANGED <<sysvars, wsvars>>

\* The clock seen at a finer grain while some reading is less than a
\* minute old
ShortTick ==
    \E d \in ShortSteps :
        /\ now + d <= MaxTime
        /\ \E r \in readings : now - r.timestamp < OnlineWindow
        /\ now' = now + d
        /\ UNCHANGED <<readings, alerts, logs, tasks, responses, call, wsvars>>

-----------------------------------------------------------------------------
(* main.py: ConnectionManager, the /ws endpoint and POST /broadcast *)

Sockets == {"ws1", "ws2", "ws3"}

MaxTexts == 2

\* The texts a client sends, by what json.loads makes of them: well formed
\* or not, and nested deeper than the interpreter's recursion limit or not
\* (such as "[" * 100000 + "]" * 100000)
Texts == [well_formed : BOOLEAN, deep : BOOLEAN]

\* json.loads(data): the value, or the exception it raises.  The scanner
\* recurses once per nesting level and raises RecursionError, which is not
\* a JSONDecodeError, before it reaches the end of a deep text.
JsonLoads(data) ==
    IF data.deep THEN "RecursionError"
    ELSE IF data.well_formed THEN "value"
    ELSE "JSONDecodeError"

NewSocket == [at |-> "none", texts |-> <<>>, replies |-> <<>>]

NoBroadcast ==
    [at |-> "none", iter |-> 0, connection |-> None, initial |-> {},
     attempted |-> {}, failed |-> {}, connections |-> 0]

InitWs ==
    /\ active_connections = <<>>
    /\ websockets = [c \in Sockets |-> NewSocket]
    /\ broadcast = NoBroadcast

Range(q) == {q[i] : i \in 1..Len(q)}

\* list.remove(x): the list without the first occurrence of x
ListRemove(q, x) ==
    LET i == CHOOSE k \in 1..Len(q) :
                 q[k] = x /\ \A j \in 1..(k - 1) : q[j] # x
    IN  SubSeq(q, 1, i - 1) \o SubSeq(q, i + 1, Len(q))

\* A client opens /ws: websocket_endpoint starts and manager.connect awaits
\* websocket.accept()
WsConnect ==
    \E c \in Sockets :
        /\ websockets[c].at = "none"
        /\ websockets' = [websockets EXCEPT ![c].at = "accept"]
        /\ UNCHANGED <<sysvars, call, active_connections, broadcast>>

\* accept() returns: the connection is appended to the list and the endpoint
\* awaits receive_text()
Connect ==
    \E c \in Sockets :
        /\ websockets[c].at = "accept"
        /\ active_connections' = Append(active_connections, c)
        /\ websockets' = [websockets EXCEPT ![c].at = "receive_text"]
        /\ UNCHANGED <<sysvars, call, broadcast>>

\* The reply of one turn of the receive loop, for the outcomes of json.loads
\* that the inner try handles
WebsocketReply(outcome) ==
    IF outcome = "value" THEN "acknowledgment" ELSE "error"

\* One turn of the receive loop: receive_text() returns a text, json.loads
\* parses it, and the acknowledgment or, on JSONDecodeError, the error reply
\* is sent.  Any other exception leaves both try statements, neither except
\* clause matching, and ends the endpoint: the server closes the connection,
\* and manager.disconnect is not called.
ReceiveText ==
    \E c \in Sockets, data \in Texts :
        /\ websockets[c].at = "receive_text"
        /\ Len(websockets[c].texts) < MaxTexts
        /\ LET outcome == JsonLoads(data)
           IN  IF outcome \in {"value", "JSONDecodeError"}
               THEN websockets' =
                      [websockets EXCEPT
                          ![c].texts = Append(@, data),
                          ![c].replies = Append(@, WebsocketReply(outcome))]
               ELSE websockets' =
                      [websockets EXCEPT
                          ![c].texts = Append(@, data),
                          ![c].at = "raised"]
        /\ UNCHANGED <<sysvars, call, active_connections, broadcast>>

\* The client goes away: receive_text() raises WebSocketDisconnect and the
\* outer except removes the connection from the list
Disconnect ==
    \E c \in Sockets :
        /\ websockets[c].at = "receive_text"
        /\ active_connections' = ListRemove(active_connections, c)
        /\ websockets' = [websockets EXCEPT ![c].at = "returned"]
        /\ UNCHANGED <<sysvars, call, broadcast>>

\* The for statement fetches the element at the iterator's index, if the
\* list is that long now, and send_json to it is begun; else the loop ends
\* and broadcast_message returns the length of the list.
BroadcastFetch(b) ==
    IF b.iter + 1 <= Len(active_connections)
    THEN [b EXCEPT !.at = "send_json",
                   !.iter = @ + 1,
                   !.connection = active_connections[b.iter + 1],
                   !.attempted = @ \cup {active_connections[b.iter + 1]}]
    ELSE [b EXCEPT !.at = "returned",
                   !.connection = None,
                   !.connections = Len(active_connections)]

\* POST /broadcast: manager.broadcast starts iterating over the list
BroadcastMessage ==
    /\ broadcast.at = "none"
    /\ broadcast' =
          BroadcastFetch([broadcast EXCEPT
                             !.initial = Range(active_connections)])
    /\ UNCHANGED <<sysvars, call, active_connections, websockets>>

\* The pending send_json ends: it raises on a connection that is no longer
\* open, which except Exception swallows; the loop goes on to its next turn
BroadcastSend ==
    /\ broadcast.at = "send_json"
    /\ broadcast' =
          BroadcastFetch(
             IF websockets[broadcast.connection].at = "receive_text"
             THEN broadcast
             ELSE [broadcast EXCEPT !.failed = @ \cup {broadcast.connection}])
    /\ UNCHANGED <<sysvars, call, active_connections, websockets>>

-----------------------------------------------------------------------------
(* Specifications *)

InitSys ==
    /\ now = 0
    /\ readings = {}
    /\ alerts = {}
    /\ logs = {}
    /\ tasks = {}
    /\ responses = <<>>
    /\ InitWs

InitPredict ==
    /\ InitSys
    /\ call \in {[state |-> "pending", op |-> "predict", data |-> i[1],
                  outcome |-> i[2], response |-> NoResponse] :
                        i \in PredictInputs}
               \cup {[state |-> "pending", op |-> "rule_based", data |-> v,
                      outcome |-> NoOutcome, response |-> NoResponse] :
                        v \in SensorDataInput}

NextPredict ==
    \/ PredictHealthRisk
    \/ RuleBasedCall

PredictSpec == InitPredict /\ [][NextPredict]_vars

Init ==
    /\ InitSys
    /\ call = Idle

Next ==
    \/ Ingest
    \/ RunTask
    \/ Tick

Spec == Init /\ [][Next]_vars

\* The readings table and one endpoint that reads it.  The deferred tasks,
\* which write the alerts and the logs and touch neither the readings nor
\* the clock, are left waiting.  The read requests are followed from the
\* first one on: they change nothing, so every state they can see is reached
\* before it.
NextHistory ==
    \/ call = Idle /\ Ingest
    \/ call = Idle /\ Tick
    \/ GetHistoricalData

HistorySpec == Init /\ [][NextHistory]_vars

NextStats ==
    \/ call = Idle /\ Ingest
    \/ call = Idle /\ Tick
    \/ call = Idle /\ ShortTick
    \/ GetSystemStats

StatsSpec == Init /\ [][NextStats]_vars

\* The WebSocket connections and one broadcast; each step is what one
\* coroutine does between two suspensions
NextWs ==
    \/ WsConnect
    \/ Connect
    \/ ReceiveText
    \/ Disconnect
    \/ BroadcastMessage
    \/ BroadcastSend

WsSpec == Init /\ [][NextWs]_vars

\* A queued deferred task is run: starlette awaits the request's
\* BackgroundTasks as soon as its response is sent
FairSpec == Spec /\ WF_vars(RunTask)

-----------------------------------------------------------------------------
(* Properties of the ingestion endpoint, checked under Spec *)

Done(op) == call.state = "done" /\ call.op = op

Ok(i) == i \in 1..Len(responses) /\ responses[i].status = 200

AlertsOf(i) == {a \in alerts : a.req = i}

PendingAlertsOf(i) ==
    {<<q, k>> \in {<<q, k>> \in tasks \X (1..2) : k <= Len(q.todo)} :
        q.req = i /\ q.todo[k].fn = "create_alert"}

\* An ingestion step: a request was answered in this step
Ingested == Len(responses') = Len(responses) + 1

C1_AlertEventuallyWritten ==
    \A i \in 1..MaxRequests :
        (Ok(i) /\ responses[i].risk_level = "High")
            ~> (Cardinality(AlertsOf(i)) = 1)

\* C2: the cleanup of an ingestion deletes no reading younger than 24 hours
\* at the cleanup time, and the reading the request just stored is still in
\* storage after it.
C2_CleanupKeepsYoung ==
    [][/\ \A r \in readings \ readings' : ~(now' - r.timestamp < Retention * 3600)
       /\ (Ingested /\ Ok(Len(responses))') =>
            \E r \in readings' :
                /\ r.id = responses'[Len(responses')].id
                /\ r.timestamp = responses'[Len(responses')].timestamp
                /\ r.device_id = responses'[Len(responses')].device_id]_vars

\* The second ingestion's cleanup ran a second after its timestamp was
\* taken and kept the first reading, of the other device, 12 hours and one
\* second old
C2_Witness ==
    /\ Len(responses) = 2
    /\ now = responses[2].timestamp + 1
    /\ responses[1].device_id # responses[2].device_id
    /\ \E r \in readings :
         /\ r.id = responses[1].id
         /\ now - r.timestamp = 43201
    /\ \E r \in readings : r.id = responses[2].id

\* C3: every stored reading has a risk level in {Low, Moderate, High}.
C3_ValidRiskLevel ==
    \A r \in readings : r.risk_level \in RiskLevel

\* Storage holds a Moderate reading from the model path and a High reading
\* from the rule-based fallback (score 0.8)
C3_Witness ==
    /\ \E r \in readings : r.risk_level = "Moderate" /\ r.risk_score = 69
    /\ \E r \in readings : r.risk_level = "High" /\ r.risk_score = 160

\* C4: when an ingestion has run its cleanup, no stored reading, of any
\* device, is more than 24 hours older than the cleanup time.
C4_CleanupDeletesOld ==
    [][(Ingested /\ Ok(Len(responses))') =>
            \A r \in readings' : now' - r.timestamp <= Retention * 3600]_vars

\* The second ingestion's cleanup deleted the first reading, of the other
\* device, which was 24 hours and one second old
C4_Witness ==
    /\ Len(responses) = 2
    /\ Ok(1) /\ Ok(2)
    /\ responses[1].device_id # responses[2].device_id
    /\ now - responses[1].timestamp = 86401
    /\ now = responses[2].timestamp + 1
    /\ \A r \in readings : r.id # responses[1].id
    /\ \E r \in readings : r.id = responses[2].id

\* C5: a step that deletes readings leaves the alerts table as it was.
C5_CleanupKeepsAlerts ==
    [][(readings \ readings' # {}) => alerts' = alerts]_vars

\* The alert raised for the first reading is still there, with its fields,
\* after the second ingestion deleted that reading
C5_Witness ==
    /\ Len(responses) = 2
    /\ Ok(1) /\ responses[1].risk_level = "High"
    /\ \A r \in readings : r.id # responses[1].id
    /\ \E a \in alerts :
         /\ a.req = 1
         /\ a.device_id = responses[1].device_id
         /\ a.vital_value = responses[1].risk_score
         /\ a.alert_type = "CRITICAL"
         /\ ~a.is_resolved
    /\ \A q \in tasks : q.req # 1

-----------------------------------------------------------------------------
(* Properties of the predictor, checked under PredictSpec *)

\* The severity the fallback gives one vital: 2 critical, 1 warning, 0 normal
HeartRateSeverity(x) ==
    IF x < 60 \/ x > 100 THEN 2 ELSE IF x < 65 \/ x > 90 THEN 1 ELSE 0

Spo2Severity(x) == IF x < 95 THEN 2 ELSE IF x < 97 THEN 1 ELSE 0

TemperatureSeverity(x) ==
    IF x < 360 \/ x > 378 THEN 2 ELSE IF x < 362 \/ x > 375 THEN 1 ELSE 0

AirQualitySeverity(x) == IF x < 50 THEN 2 ELSE IF x < 70 THEN 1 ELSE 0

Severities(v) ==
    <<HeartRateSeverity(v.heart_rate), Spo2Severity(v.spo2),
      TemperatureSeverity(v.temperature), AirQualitySeverity(v.air_quality)>>

Signals(v, severity) ==
    Cardinality({k \in 1..4 : Severities(v)[k] = severity})

InNormalRange(v) ==
    /\ v.heart_rate >= 60 /\ v.heart_rate <= 100
    /\ v.spo2 >= 97
    /\ v.temperature >= 362 /\ v.temperature <= 375
    /\ v.air_quality >= 70

\* C6: for heart rate in [60,100], SpO2 >= 97, temperature in [36.2,37.5]
\* and air quality >= 70, whatever the humidity, the rule-based fallback
\* returns Low with score 0.2.
C6_NormalVitalsLow ==
    (Done("rule_based") /\ InNormalRange(call.data)) =>
        /\ call.response.risk_level = "Low"
        /\ call.response.risk_score = 40

\* The fallback answered Low, 0.2 for boundary vitals whose heart rate, 100,
\* counts as a warning
C6_Witness ==
    /\ Done("rule_based")
    /\ call.data.heart_rate = 100 /\ call.data.spo2 = 97
    /\ call.data.temperature = 375 /\ call.data.air_quality = 70
    /\ call.data.humidity = 71
    /\ call.response.risk_level = "Low"
    /\ call.response.risk_score = 40

\* C7: the fallback's answer is decided by the numbers of critical and of
\* warning signals among heart rate, SpO2, temperature and air quality, one
\* signal at most per vital and none for humidity: High, 0.8 with two or
\* more critical signals; Moderate, 0.5 with one critical signal or two or
\* more warnings; Low, 0.2 otherwise; confidence 0.75 always.
C7_RuleBasedLevels ==
    Done("rule_based") =>
        LET c == Signals(call.data, 2)
            w == Signals(call.data, 1)
            r == call.response
        IN  /\ r.confidence = 150
            /\ c >= 2 => (r.risk_level = "High" /\ r.risk_score = 160)
            /\ (c < 2 /\ (c >= 1 \/ w >= 2)) =>
                    (r.risk_level = "Moderate" /\ r.risk_score = 100)
            /\ (c = 0 /\ w < 2) =>
                    (r.risk_level = "Low" /\ r.risk_score = 40)

\* The fallback answered Moderate, 0.5, 0.75 for two warnings and no
\* critical signal, with a humidity out of its range
C7_Witness ==
    /\ Done("rule_based")
    /\ Signals(call.data, 2) = 0 /\ Signals(call.data, 1) = 2
    /\ call.data.humidity = 29
    /\ call.response.risk_level = "Moderate"
    /\ call.response.risk_score = 100
    /\ call.response.confidence = 150

C9_FailureFallsBack ==
    (Done("predict") /\ call.outcome.raises \in Steps) =>
        LET f == RuleBasedPrediction(call.data)
            r == call.response
        IN  /\ r.status = 200
            /\ r.risk_level = f.risk_level
            /\ r.risk_score = f.risk_score
            /\ r.confidence = f.confidence
            /\ r.recommendations = f.recommendations

\* The class prediction, the last step, raised and the endpoint answered
\* with the fallback's High, 0.8, 0.75
C9_Witness ==
    /\ Done("predict")
    /\ call.outcome.raises = "predict"
    /\ call.response.status = 200
    /\ call.response.risk_level = "High"
    /\ call.response.risk_score = 160
    /\ call.response.confidence = 150

\* C9, for the ingestion endpoint, under Spec: every ingestion is answered
\* 200, whether the model path raised or not, and a rule-based score (0.2,
\* 0.8) comes with the rule-based level.
C9_IngestionSucceeds ==
    \A i \in 1..Len(responses) :
        /\ responses[i].status = 200
        /\ responses[i].risk_score = 40 => responses[i].risk_level = "Low"
        /\ responses[i].risk_score = 160 => responses[i].risk_level = "High"

\* C10: when the model path raises, the recommendations predict returns are
\* not empty.
C10_RecommendationsNonEmpty ==
    (Done("predict") /\ call.outcome.raises \in Steps) =>
        /\ call.response.status = 200
        /\ Len(call.response.recommendations) >= 1

\* The model path raised on vitals that breach no threshold and the answer
\* holds the one closing message
C10_Witness ==
    /\ Done("predict")
    /\ call.outcome.raises \in Steps
    /\ InNormalRange(call.data)
    /\ call.data.heart_rate = 65
    /\ call.data.humidity = 30
    /\ call.response.status = 200
    /\ call.response.recommendations = <<"All vitals within normal range">>

\* The canned messages of one vital, and the one of it that applies
VitalMessages(k) ==
    CASE k = 1 -> {"Elevated heart rate detected", "Low heart rate detected"}
      [] k = 2 -> {"Low oxygen saturation", "Oxygen levels slightly low"}
      [] k = 3 -> {"Fever detected", "Low body temperature"}
      [] k = 4 -> {"Poor air quality"}
      [] k = 5 -> {"High humidity", "Low humidity"}

Breached(v, k) ==
    CASE k = 1 -> v.heart_rate > 100 \/ v.heart_rate < 60
      [] k = 2 -> v.spo2 < 97
      [] k = 3 -> v.temperature > 378 \/ v.temperature < 360
      [] k = 4 -> v.air_quality < 70
      [] k = 5 -> v.humidity > 70 \/ v.humidity < 30

ClosingMessage(risk_level) ==
    CASE risk_level = "High" ->
            "HIGH RISK: Contact healthcare provider immediately"
      [] risk_level = "Moderate" ->
            "MODERATE RISK: Monitor vitals every 15 minutes"
      [] risk_level = "Low" -> "All vitals within normal range"

\* The vital a message of the list belongs to, 6 for the closing messages
VitalOf(msg) ==
    IF \E k \in 1..5 : msg \in VitalMessages(k)
    THEN CHOOSE k \in 1..5 : msg \in VitalMessages(k)
    ELSE 6

\* C11: whichever path produced the level, the recommendations are the
\* messages of the breached vitals, one per breached vital and none for the
\* others, in the order heart rate, SpO2, temperature, air quality,
\* humidity, followed by the closing message of the risk level, which is
\* the last element and the only closing message.
C11_Recommendations ==
    (call.state = "done" /\ call.op \in {"predict", "rule_based"}) =>
        LET recs == call.response.recommendations
            n == Len(recs)
        IN  /\ n >= 1
            /\ recs[n] = ClosingMessage(call.response.risk_level)
            /\ \A i \in 1..(n - 1) : VitalOf(recs[i]) <= 5
            /\ \A i, j \in 1..n : i < j => VitalOf(recs[i]) < VitalOf(recs[j])
            /\ \A k \in 1..5 :
                 Breached(call.data, k) <=>
                    \E i \in 1..(n - 1) : VitalOf(recs[i]) = k

\* The model path answered Low for vitals that breach all five thresholds:
\* five messages in order, then the closing message of Low
C11_Witness ==
    /\ Done("predict")
    /\ call.outcome.raises = "none"
    /\ call.response.risk_level = "Low"
    /\ call.response.recommendations =
         <<"Low heart rate detected", "Low oxygen saturation",
           "Fever detected", "Poor air quality", "Low humidity",
           "All vitals within normal range">>

-----------------------------------------------------------------------------
(* Properties of alerting, checked under Spec *)

\* The create_alert tasks waiting in the deferred queues
PendingAlerts ==
    {q.todo[k] : <<q, k>> \in
        {<<q, k>> \in tasks \X (1..2) :
            k <= Len(q.todo) /\ q.todo[k].fn = "create_alert"}}

\* C16: a stored reading is critical exactly when its level is High; an
\* alert is enqueued or written only for an ingestion whose reading is High;
\* every alert has type CRITICAL and is unresolved.
C16_CriticalIffHigh ==
    /\ \A r \in readings : r.is_critical <=> (r.risk_level = "High")
    /\ \A i \in 1..Len(responses) :
         Ok(i) => (responses[i].is_critical <=> responses[i].risk_level = "High")
    /\ \A a \in alerts \cup PendingAlerts :
         /\ Ok(a.req)
         /\ responses[a.req].risk_level = "High"
         /\ a.alert_type = "CRITICAL"
    /\ \A a \in alerts : ~a.is_resolved

\* A Moderate and a High reading are stored, all deferred tasks have run,
\* and the one alert is that of the High reading
C16_Witness ==
    /\ Len(responses) = 2
    /\ tasks = {}
    /\ \E r \in readings : r.risk_level = "Moderate" /\ ~r.is_critical
    /\ \E r \in readings : r.risk_level = "High" /\ r.is_critical
    /\ Cardinality(alerts) = 1
    /\ \A a \in alerts :
         /\ responses[a.req].risk_level = "High"
         /\ a.alert_type = "CRITICAL"
         /\ ~a.is_resolved

-----------------------------------------------------------------------------
(* The read endpoints *)

\* The readings of a device that a history request with the given window
\* has to return: those stored at most `hours` hours before the request
InWindow(device_id, hours) ==
    {r \in readings :
        r.device_id = device_id /\ r.timestamp >= now - hours * 3600}

\* C12: a history request answers with exactly the stored readings of the
\* requested device whose timestamp is >= now - hours, each once, in
\* ascending timestamp order, its five lists having the same length; when
\* no reading matches, the five lists are empty.
C12_HistoryWindow ==
    [][(call' # call /\ call'.state = "done" /\ call'.op = "history") =>
          LET rows == InWindow(call'.device_id, call'.hours)
              resp == call'.response
              n == Cardinality(rows)
          IN  /\ Len(resp.timestamps) = n
              /\ Len(resp.heart_rate) = n
              /\ Len(resp.spo2) = n
              /\ Len(resp.temperature) = n
              /\ Len(resp.risk_scores) = n
              /\ \E q \in [1..n -> rows] :
                    /\ \A i, j \in 1..n : i # j => q[i] # q[j]
                    /\ \A i, j \in 1..n :
                          i < j => q[i].timestamp <= q[j].timestamp
                    /\ \A i \in 1..n :
                          /\ resp.timestamps[i] = q[i].timestamp % 86400
                          /\ resp.heart_rate[i] = q[i].heart_rate
                          /\ resp.spo2[i] = q[i].spo2
                          /\ resp.temperature[i] = q[i].temperature
                          /\ resp.risk_scores[i] = q[i].risk_score
              /\ (rows = {} =>
                    /\ resp.timestamps = <<>>
                    /\ resp.heart_rate = <<>>
                    /\ resp.spo2 = <<>>
                    /\ resp.temperature = <<>>
                    /\ resp.risk_scores = <<>>)
    ]_vars

\* A history request was answered with one reading, stored exactly `hours`
\* hours before it, while an older reading of the same device is still
\* stored and was left out
C12_Witness ==
    /\ call.state = "done"
    /\ call.op = "history"
    /\ Len(call.response.timestamps) = 1
    /\ \E r \in readings :
          /\ r.device_id = call.device_id
          /\ r.timestamp = now - call.hours * 3600
          /\ call.response.heart_rate[1] = r.heart_rate
    /\ \E r \in readings :
          /\ r.device_id = call.device_id
          /\ r.timestamp < now - call.hours * 3600

\* A history request on a device without stored readings was answered with
\* five empty lists while the other device has readings
C12_EmptyWitness ==
    /\ call.state = "done"
    /\ call.op = "history"
    /\ readings # {}
    /\ \A r \in readings : r.device_id # call.device_id
    /\ call.response.timestamps = <<>>
    /\ call.response.risk_scores = <<>>

\* C13: a stats request reports "No Data" when the device has no stored
\* reading, otherwise "Online" exactly when the most recent stored reading of
\* the device is less than 60 seconds old and "Offline" otherwise; its three
\* counts are the numbers of the device's stored readings at each risk level
\* and add up to total_readings.
C13_StatsStatus ==
    [][(call' # call /\ call'.state = "done" /\ call'.op = "stats") =>
          LET rs == {r \in readings : r.device_id = call'.device_id}
              resp == call'.response
              recent == \E r \in rs :
                           /\ \A o \in rs : o.timestamp <= r.timestamp
                           /\ now - r.timestamp < 60
          IN  /\ rs = {} => resp.device_status = "No Data"
              /\ (rs # {} /\ recent) => resp.device_status = "Online"
              /\ (rs # {} /\ ~recent) => resp.device_status = "Offline"
              /\ resp.high_risk_count =
                    Cardinality({r \in rs : r.risk_level = "High"})
              /\ resp.moderate_risk_count =
                    Cardinality({r \in rs : r.risk_level = "Moderate"})
              /\ resp.low_risk_count =
                    Cardinality({r \in rs : r.risk_level = "Low"})
              /\ resp.high_risk_count + resp.moderate_risk_count
                    + resp.low_risk_count = resp.total_readings
              /\ resp.total_readings = Cardinality(rs)
    ]_vars

\* A stats request was answered "Offline" for a device whose latest reading
\* was exactly 60 seconds old
C13_Witness ==
    /\ call.state = "done"
    /\ call.op = "stats"
    /\ call.response.device_status = "Offline"
    /\ call.response.total_readings >= 1
    /\ \E r \in readings :
          /\ r.device_id = call.device_id
          /\ now - r.timestamp = 60
    /\ \A r \in readings :
          r.device_id = call.device_id => now - r.timestamp >= 60

\* A stats request was answered "Online" for a device that has a High and a
\* Low reading, the latest one 59 seconds old
C13_OnlineWitness ==
    /\ call.state = "done"
    /\ call.op = "stats"
    /\ call.response.device_status = "Online"
    /\ call.response.high_risk_count = 1
    /\ call.response.low_risk_count = 1
    /\ call.response.last_updated = now - 59

-----------------------------------------------------------------------------
(* The WebSocket endpoint and the broadcast, checked under WsSpec *)

\* C14: on every connection each received text has got exactly one reply
\* before the next one is read, an acknowledgment if the text parsed as JSON
\* and an error reply if it did not, and a connection that has received
\* texts is still open and in the connection list unless its client went
\* away.
C14_OneReplyPerText ==
    \A c \in Sockets :
        LET w == websockets[c]
        IN  /\ Len(w.replies) = Len(w.texts)
            /\ \A i \in 1..Len(w.replies) :
                  w.replies[i] = IF JsonLoads(w.texts[i]) = "value"
                                 THEN "acknowledgment"
                                 ELSE "error"
            /\ (w.texts # <<>> /\ w.at # "returned") =>
                  /\ w.at = "receive_text"
                  /\ c \in Range(active_connections)

\* What does hold: a text is left without reply only when json.loads raised
\* something other than JSONDecodeError, and then the endpoint has ended with
\* the connection still in the list
C14_ReplyUnlessRaised ==
    \A c \in Sockets :
        LET w == websockets[c]
            n == Len(w.texts)
        IN  /\ \A i \in 1..Len(w.replies) :
                  /\ JsonLoads(w.texts[i]) \in {"value", "JSONDecodeError"}
                  /\ w.replies[i] = WebsocketReply(JsonLoads(w.texts[i]))
            /\ w.at # "raised" => Len(w.replies) = n
            /\ w.at = "raised" =>
                  /\ Len(w.replies) = n - 1
                  /\ JsonLoads(w.texts[n]) = "RecursionError"
                  /\ c \in Range(active_connections)

\* A connection got an acknowledgment and then an error reply and is open
C14_RepliesWitness ==
    \E c \in Sockets :
        /\ websockets[c].at = "receive_text"
        /\ websockets[c].replies = <<"acknowledgment", "error">>
        /\ c \in Range(active_connections)

\* C15: when a broadcast has returned, a send was attempted to every
\* connection that was in the connection list from its start to its end,
\* whichever connections connected or disconnected while it was suspended in
\* a send, and whichever sends failed.
C15_BroadcastReachesAll ==
    broadcast.at = "returned" =>
        \A c \in broadcast.initial \cap Range(active_connections) :
            c \in broadcast.attempted

\* What does hold: a failed send does not end the loop.  A broadcast over
\* three connections returned after a send to each, the first two failed.
C15_SendFailureWitness ==
    /\ broadcast.at = "returned"
    /\ Len(active_connections) = 3
    /\ broadcast.attempted = Range(active_connections)
    /\ broadcast.failed =
          {active_connections[1], active_connections[2]}

\* What does hold: a connection appended while the broadcast is suspended
\* is sent to as well
C15_LateConnectionWitness ==
    /\ broadcast.at = "returned"
    /\ \E c \in broadcast.attempted : c \notin broadcast.initial

====
